---- MODULE Spec2Model ----
(***************************************************************************)
(* MySQL HA probe client (src/main.py): a supervisor (module level code    *)
(* and the __main__ block) that optionally bootstraps the database, spawns *)
(* worker threads, waits for the stop event and joins the workers with a   *)
(* timeout; and db_worker, the per-thread connect / query / back-off loop. *)
(*                                                                         *)
(* The database endpoint and the client library are the environment: a     *)
(* connect or a query may succeed, fail with a mysql.connector.Error or    *)
(* raise another exception, and a live session may die at any moment.      *)
(* is_connected() reports the liveness of the session at the moment it is  *)
(* called; the session may die right after the answer.  A close() that     *)
(* raises is a close on a session whose link broke after the liveness      *)
(* check.                                                                  *)
(*                                                                         *)
(* The command line fixes the number of workers and the long query chance. *)
(* sinceStop is a history variable: with counting on (CountingSpec) it     *)
(* records, per worker, what the worker did after stop_event was set; it   *)
(* is read by no action of the program.                                    *)
(***************************************************************************)
EXTENDS Integers, FiniteSets, Sequences, TLC

\* ---------------------------------------------------------------- bounds
NumWorkers == 2
MaxSess == 2
MaxFails == 6
ChanceSteps == 2
MaxCount == 2

\* ------------------------------------------------------ program constants
InitialRetryDelay == 1
MaxRetryDelay == 30
LostSleep == 1
OtherSleep == 2
CriticalSleep == 5
LongQueryDuration == 10
JoinMargin == 5

Workers == 1..NumWorkers
Sessions == 1..MaxSess
None == 0

Min(a, b) == IF a < b THEN a ELSE b

\* random.random() and --long-query-chance in units of 1/ChanceSteps:
\* a draw d stands for r = d/ChanceSteps in [0,1), a chance c for
\* c/ChanceSteps in [0,1]
Draws == 0..(ChanceSteps - 1)
Chances == 0..ChanceSteps

\* the command lines explored, <<--workers, --long-query-chance>>: every
\* chance with one worker, a chance strictly between 0 and 1 with NumWorkers
Configs == ({1} \X Chances) \cup {<<NumWorkers, 1>>}

VARIABLES
    stop,            \* stop_event
    supPc,           \* supervisor position: boot, spawn, main, join, exited
    supIdx,          \* index of the thread being started / joined
    bootstrap,       \* the --create-db step: pending, passed, failed
    exitCode,        \* process exit status, -1 while running
    joinWait,        \* seconds the latest thread.join call waited, when it timed out
    pc,              \* per worker position in db_worker
    connection,      \* per worker: the session handle, None = 0
    retry_delay,     \* per worker: the reconnect delay
    cursor,          \* per worker: a cursor is open
    status,          \* per session: unopened, live, dead, closed
    owner,           \* per session: the worker whose connect opened it
    closeCalled,     \* sessions on which close() was invoked
    fails,           \* per worker: consecutive classified connect failures
    sleptAfterStop,  \* per sleeping worker: seconds of its sleep, if begun after stop was set
    workers,         \* args.workers
    long_query_chance, \* args.long_query_chance, in units of 1/ChanceSteps
    query,           \* per worker: the query being executed: none, short, long
    draw,            \* per worker: the value of random.random() that chose the query, -1 = none
    openCursors,     \* per worker: cursors obtained and not yet closed
    counting,        \* the observer of sinceStop is on (fixed at start)
    sinceStop        \* per worker, observed when counting: what it did since stop was set

vars == <<stop, supPc, supIdx, bootstrap, exitCode, joinWait, pc, connection,
          retry_delay, cursor, status, owner, closeCalled, fails,
          sleptAfterStop, workers, long_query_chance, query, draw,
          openCursors, counting, sinceStop>>

supVars == <<supPc, supIdx, bootstrap, exitCode, joinWait>>
sessVars == <<status, owner, closeCalled>>
constVars == <<workers, long_query_chance, counting>>
qVars == <<query, draw, openCursors>>

\* nothing observed of a worker
NoneSince == [inFlight |-> FALSE, completed |-> FALSE, connects |-> 0, queries |-> 0]

\* thread.join(timeout=args.long_query_duration + 5)
JoinTimeout == LongQueryDuration + JoinMargin

\* `connection and connection.is_connected()`
IsConnected(c) == c # None /\ status[c] = "live"

\* number of sessions opened so far; connection ids are handed out in order
Opened == Cardinality({s \in Sessions : status[s] # "unopened"})

\* the process is running (daemon threads end with the process)
Running == supPc # "exited"

Init ==
    /\ stop = FALSE
    /\ supPc = "boot"
    /\ supIdx = 1
    /\ bootstrap = "pending"
    /\ exitCode = -1
    /\ joinWait = 0
    /\ pc = [w \in Workers |-> "unstarted"]
    /\ connection = [w \in Workers |-> None]
    /\ retry_delay = [w \in Workers |-> InitialRetryDelay]
    /\ cursor = [w \in Workers |-> FALSE]
    /\ status = [s \in Sessions |-> "unopened"]
    /\ owner = [s \in Sessions |-> None]
    /\ closeCalled = {}
    /\ fails = [w \in Workers |-> 0]
    /\ sleptAfterStop = [w \in Workers |-> 0]
    /\ \E cfg \in Configs : workers = cfg[1] /\ long_query_chance = cfg[2]
    /\ query = [w \in Workers |-> "none"]
    /\ draw = [w \in Workers |-> -1]
    /\ openCursors = [w \in Workers |-> 0]
    /\ counting = FALSE
    /\ sinceStop = [w \in Workers |-> NoneSince]

\* -------------------------------------------------------------- observer

\* stop_event.set() while the event was clear: the observer notes which
\* workers have a query in flight
StopObserved ==
    sinceStop' = IF counting /\ ~stop
                 THEN [w \in Workers |->
                          [sinceStop[w] EXCEPT !.inFlight = (pc[w] = "exec")]]
                 ELSE sinceStop

\* worker w makes a connect call ("connects") or begins a query attempt
\* ("queries") with the event already set: the observer counts it
Counted(w, what) ==
    sinceStop' = IF counting /\ stop
                 THEN [sinceStop EXCEPT ![w][what] = Min(@ + 1, MaxCount)]
                 ELSE sinceStop

\* the query of worker w returns or raises with the event already set
Completed(w) ==
    sinceStop' = IF counting /\ stop
                 THEN [sinceStop EXCEPT ![w].completed = TRUE]
                 ELSE sinceStop

\* ------------------------------------------------------------ supervisor

\* --create-db not given: lines 36-57 are skipped
BootSkip ==
    /\ supPc = "boot"
    /\ bootstrap' = "passed"
    /\ supPc' = "spawn"
    /\ UNCHANGED <<stop, supIdx, exitCode, joinWait, pc, connection, retry_delay,
                   cursor, sessVars, fails, sleptAfterStop>>
    /\ UNCHANGED <<constVars, qVars, sinceStop>>

\* --create-db: the temporary connection is opened, CREATE DATABASE runs and
\* the finally clause closes the temporary connection again
BootOk ==
    /\ supPc = "boot"
    /\ bootstrap' = "passed"
    /\ supPc' = "spawn"
    /\ UNCHANGED <<stop, supIdx, exitCode, joinWait, pc, connection, retry_delay,
                   cursor, sessVars, fails, sleptAfterStop>>
    /\ UNCHANGED <<constVars, qVars, sinceStop>>

\* mutant: the failure is logged and the sys.exit(1) is missing
BootFailContinues ==
    /\ supPc = "boot"
    /\ bootstrap' = "failed"
    /\ supPc' = "spawn"
    /\ UNCHANGED <<stop, supIdx, exitCode, joinWait, pc, connection, retry_delay,
                   cursor, sessVars, fails, sleptAfterStop>>
    /\ UNCHANGED <<constVars, qVars, sinceStop>>

\* --create-db: connect or CREATE DATABASE raises; sys.exit(1)
BootFail ==
    /\ supPc = "boot"
    /\ bootstrap' = "failed"
    /\ supPc' = "exited"
    /\ exitCode' = 1
    /\ UNCHANGED <<stop, supIdx, joinWait, pc, connection, retry_delay,
                   cursor, sessVars, fails, sleptAfterStop>>
    /\ UNCHANGED <<constVars, qVars, sinceStop>>

\* the handlers are installed after the bootstrap (lines 68-69); a signal
\* before that ends the process without setting the event
HandlersInstalled == supPc \in {"spawn", "main", "join"}

\* mutant: the handler toggles the event
signal_handler_toggles ==
    /\ HandlersInstalled
    /\ stop' = ~stop
    /\ UNCHANGED <<supVars, pc, connection, retry_delay, cursor, sessVars,
                   fails, sleptAfterStop>>
    /\ StopObserved
    /\ UNCHANGED <<constVars, qVars>>

\* SIGINT or SIGTERM delivered: stop_event.set()
signal_handler ==
    /\ HandlersInstalled
    /\ stop' = TRUE
    /\ UNCHANGED <<supVars, pc, connection, retry_delay, cursor, sessVars,
                   fails, sleptAfterStop>>
    /\ StopObserved
    /\ UNCHANGED <<constVars, qVars>>

\* threading.Thread(target=db_worker, ...).start() for thread supIdx; the new
\* thread begins db_worker with connection = None and retry_delay = 1
Spawn ==
    /\ supPc = "spawn"
    /\ pc' = [pc EXCEPT ![supIdx] = "top"]
    /\ IF supIdx = workers
       THEN supPc' = "main" /\ supIdx' = 1
       ELSE supPc' = "spawn" /\ supIdx' = supIdx + 1
    /\ UNCHANGED <<stop, bootstrap, exitCode, joinWait, connection, retry_delay,
                   cursor, sessVars, fails, sleptAfterStop>>
    /\ UNCHANGED <<constVars, qVars, sinceStop>>

\* `while not stop_event.is_set(): time.sleep(1)` sees the event set
MainLoopExit ==
    /\ supPc = "main"
    /\ stop
    /\ supPc' = "join"
    /\ supIdx' = 1
    /\ UNCHANGED <<stop, bootstrap, exitCode, joinWait, pc, connection,
                   retry_delay, cursor, sessVars, fails, sleptAfterStop>>
    /\ UNCHANGED <<constVars, qVars, sinceStop>>

\* `except KeyboardInterrupt: stop_event.set()` around the main loop
KeyboardInterrupt ==
    /\ supPc = "main"
    /\ stop' = TRUE
    /\ supPc' = "join"
    /\ supIdx' = 1
    /\ UNCHANGED <<bootstrap, exitCode, joinWait, pc, connection, retry_delay,
                   cursor, sessVars, fails, sleptAfterStop>>
    /\ StopObserved
    /\ UNCHANGED <<constVars, qVars>>

\* sys.exit(0): the process ends.  The worker threads are daemon threads:
\* those still running end with it, their locals are gone and the
\* operating system drops their connections
ProcessExit ==
    /\ supPc' = "exited"
    /\ exitCode' = 0
    /\ pc' = [w \in Workers |-> IF pc[w] \in {"unstarted", "stopped"}
                                 THEN pc[w] ELSE "killed"]
    /\ connection' = [w \in Workers |-> None]
    /\ retry_delay' = [w \in Workers |-> InitialRetryDelay]
    /\ cursor' = [w \in Workers |-> FALSE]
    /\ fails' = [w \in Workers |-> 0]
    /\ status' = [s \in Sessions |-> IF status[s] = "live" THEN "dead" ELSE status[s]]
    /\ sleptAfterStop' = [w \in Workers |-> 0]
    /\ UNCHANGED <<supIdx, owner, closeCalled>>
    /\ query' = [w \in Workers |-> "none"]
    /\ draw' = [w \in Workers |-> -1]
    /\ openCursors' = [w \in Workers |-> 0]
    /\ sinceStop' = [w \in Workers |-> NoneSince]
    /\ UNCHANGED constVars

\* after the join of thread supIdx: the next thread, or the end of the loop
\* and sys.exit(0)
JoinAdvance ==
    IF supIdx = workers
    THEN ProcessExit
    ELSE /\ supPc' = "join"
         /\ supIdx' = supIdx + 1
         /\ UNCHANGED <<exitCode, pc, connection, retry_delay, cursor, sessVars,
                        fails, sleptAfterStop, constVars, qVars, sinceStop>>

\* thread.join(timeout) returns because the thread has ended
JoinReturn ==
    /\ supPc = "join"
    /\ pc[supIdx] = "stopped"
    /\ joinWait' = 0
    /\ JoinAdvance
    /\ UNCHANGED <<stop, bootstrap>>

\* mutant: thread.join() without a timeout never returns for a live thread
JoinWithoutTimeout ==
    /\ supPc = "join"
    /\ FALSE
    /\ UNCHANGED vars

\* thread.join(timeout) returns after the timeout with the thread alive
JoinTimedOut ==
    /\ supPc = "join"
    /\ pc[supIdx] # "stopped"
    /\ joinWait' = JoinTimeout
    /\ JoinAdvance
    /\ UNCHANGED <<stop, bootstrap>>

Supervisor ==
    \/ BootSkip
    \/ BootOk
    \/ BootFail
    \/ Spawn
    \/ MainLoopExit
    \/ KeyboardInterrupt
    \/ JoinReturn
    \/ JoinTimedOut

\* ---------------------------------------------------------------- worker

\* mutant: the comparison is `<=`
ChooseQueryInclusive(d, chance) == IF d <= chance THEN "long" ELSE "short"

\* `if random.random() < args.long_query_chance:` SELECT SLEEP(n), else
\* SELECT 1
ChooseQuery(d, chance) == IF d < chance THEN "long" ELSE "short"

\* time.sleep(d) begins: d seconds are charged if stop is already set; the
\* charge is dropped when the sleep returns
Slept(w, d) ==
    sleptAfterStop' = [sleptAfterStop EXCEPT ![w] = IF stop THEN d ELSE 0]

\* `if connection and connection.is_connected(): try: connection.close()
\*  except Exception: log`.  ok = FALSE: the link broke after the liveness
\* check and close() raised; the error is logged and swallowed
CloseIfConnected(w, ok) ==
    IF IsConnected(connection[w])
    THEN /\ status' = [status EXCEPT
                          ![connection[w]] = IF ok THEN "closed" ELSE "dead"]
         /\ closeCalled' = closeCalled \cup {connection[w]}
    ELSE UNCHANGED <<status, closeCalled>>

\* mutant: the cap is applied by refusing to double past it
NextDelayStuck(d) == IF d * 2 > MaxRetryDelay THEN d ELSE d * 2

\* retry_delay = min(retry_delay * 2, 30)
NextDelay(d) == Min(d * 2, MaxRetryDelay)

\* mutant: the loop condition is `while True`
LoopTopIgnoresStop(w) ==
    /\ Running
    /\ pc[w] = "top"
    /\ pc' = [pc EXCEPT ![w] =
                IF IsConnected(connection[w]) THEN "cursor" ELSE "connect"]
    /\ UNCHANGED <<stop, supVars, connection, retry_delay, cursor, sessVars,
                   fails, sleptAfterStop>>
    /\ UNCHANGED <<constVars, qVars, sinceStop>>

\* mutant: every iteration reconnects, whatever is_connected() says
LoopTopAlwaysConnects(w) ==
    /\ Running
    /\ pc[w] = "top"
    /\ pc' = [pc EXCEPT ![w] = IF stop THEN "cleanup" ELSE "connect"]
    /\ UNCHANGED <<stop, supVars, connection, retry_delay, cursor, sessVars,
                   fails, sleptAfterStop, constVars, qVars, sinceStop>>

\* `while not stop_event.is_set():` followed, inside the loop, by
\* `if connection is None or not connection.is_connected():`
LoopTop(w) ==
    /\ Running
    /\ pc[w] = "top"
    /\ pc' = [pc EXCEPT ![w] =
                IF stop THEN "cleanup"
                ELSE IF IsConnected(connection[w]) THEN "cursor"
                ELSE "connect"]
    /\ UNCHANGED <<stop, supVars, connection, retry_delay, cursor, sessVars,
                   fails, sleptAfterStop>>
    /\ UNCHANGED <<constVars, qVars, sinceStop>>

\* mutant: the delay is not reset after a successful connect
ConnectOkNoReset(w) ==
    /\ Running
    /\ pc[w] = "connect"
    /\ Opened < MaxSess
    /\ LET s == Opened + 1 IN
         /\ connection' = [connection EXCEPT ![w] = s]
         /\ status' = [status EXCEPT ![s] = "live"]
         /\ owner' = [owner EXCEPT ![s] = w]
    /\ fails' = [fails EXCEPT ![w] = 0]
    /\ pc' = [pc EXCEPT ![w] = "cursor"]
    /\ Counted(w, "connects")
    /\ UNCHANGED <<stop, supVars, retry_delay, cursor, closeCalled,
                   sleptAfterStop, constVars, qVars>>

\* mysql.connector.connect(...) returns a session; retry_delay = 1
ConnectOk(w) ==
    /\ Running
    /\ pc[w] = "connect"
    /\ Opened < MaxSess
    /\ LET s == Opened + 1 IN
         /\ connection' = [connection EXCEPT ![w] = s]
         /\ status' = [status EXCEPT ![s] = "live"]
         /\ owner' = [owner EXCEPT ![s] = w]
    /\ retry_delay' = [retry_delay EXCEPT ![w] = InitialRetryDelay]
    /\ fails' = [fails EXCEPT ![w] = 0]
    /\ pc' = [pc EXCEPT ![w] = "cursor"]
    /\ UNCHANGED <<stop, supVars, cursor, closeCalled, sleptAfterStop>>
    /\ Counted(w, "connects")
    /\ UNCHANGED <<constVars, qVars>>

\* mysql.connector.connect(...) raises mysql.connector.Error:
\* connection = None; time.sleep(retry_delay) begins
ConnectFail(w) ==
    /\ Running
    /\ pc[w] = "connect"
    /\ connection' = [connection EXCEPT ![w] = None]
    /\ fails' = [fails EXCEPT ![w] = Min(@ + 1, MaxFails)]
    /\ Slept(w, retry_delay[w])
    /\ pc' = [pc EXCEPT ![w] = "backoff"]
    /\ UNCHANGED <<stop, supVars, retry_delay, cursor, sessVars>>
    /\ Counted(w, "connects")
    /\ UNCHANGED <<constVars, qVars>>

\* mutant: the retry is an inner loop that does not pass the loop condition
BackoffWakeRetries(w) ==
    /\ Running
    /\ pc[w] = "backoff"
    /\ retry_delay' = [retry_delay EXCEPT ![w] = NextDelay(@)]
    /\ pc' = [pc EXCEPT ![w] = "connect"]
    /\ sleptAfterStop' = [sleptAfterStop EXCEPT ![w] = 0]
    /\ UNCHANGED <<stop, supVars, connection, cursor, sessVars, fails,
                   constVars, qVars, sinceStop>>

\* time.sleep(retry_delay) returns; the delay is doubled; continue
BackoffWake(w) ==
    /\ Running
    /\ pc[w] = "backoff"
    /\ retry_delay' = [retry_delay EXCEPT ![w] = NextDelay(@)]
    /\ pc' = [pc EXCEPT ![w] = "top"]
    /\ sleptAfterStop' = [sleptAfterStop EXCEPT ![w] = 0]
    /\ UNCHANGED <<stop, supVars, connection, cursor, sessVars, fails>>
    /\ UNCHANGED <<constVars, qVars, sinceStop>>

\* mutant: the loop-level handler closes the connection but keeps the handle
CriticalKeeps(w, ok) ==
    /\ CloseIfConnected(w, ok)
    /\ Slept(w, CriticalSleep)
    /\ pc' = [pc EXCEPT ![w] = "sleepCrit"]
    /\ UNCHANGED <<stop, supVars, connection, retry_delay, owner, fails,
                   constVars>>

\* mutant: the loop-level handler backs off like a failed connect
CriticalBacksOff(w, ok) ==
    /\ CloseIfConnected(w, ok)
    /\ connection' = [connection EXCEPT ![w] = None]
    /\ retry_delay' = [retry_delay EXCEPT ![w] = NextDelay(@)]
    /\ Slept(w, CriticalSleep)
    /\ pc' = [pc EXCEPT ![w] = "sleepCrit"]
    /\ UNCHANGED <<stop, supVars, owner, fails, constVars>>

\* `except Exception as e:` of the loop body: close the connection if it is
\* connected, connection = None; time.sleep(5) begins
Critical(w, ok) ==
    /\ CloseIfConnected(w, ok)
    /\ connection' = [connection EXCEPT ![w] = None]
    /\ Slept(w, CriticalSleep)
    /\ pc' = [pc EXCEPT ![w] = "sleepCrit"]
    /\ UNCHANGED <<stop, supVars, retry_delay, owner, fails>>
    /\ UNCHANGED constVars

\* mutant: the exception escapes db_worker and the thread ends
ConnectUnexpectedEscapes(w) ==
    /\ Running
    /\ pc[w] = "connect"
    /\ pc' = [pc EXCEPT ![w] = "stopped"]
    /\ UNCHANGED <<stop, supVars, connection, retry_delay, cursor, sessVars,
                   fails, sleptAfterStop>>
    /\ Counted(w, "connects")
    /\ UNCHANGED <<constVars, qVars>>

\* mysql.connector.connect(...) raises an exception that is no
\* mysql.connector.Error
ConnectUnexpected(w) ==
    /\ Running
    /\ pc[w] = "connect"
    /\ \E ok \in BOOLEAN : Critical(w, ok)
    /\ UNCHANGED cursor
    /\ Counted(w, "connects")
    /\ UNCHANGED qVars

\* cursor = connection.cursor()
OpenCursor(w) ==
    /\ Running
    /\ pc[w] = "cursor"
    /\ cursor' = [cursor EXCEPT ![w] = TRUE]
    /\ pc' = [pc EXCEPT ![w] = "exec"]
    /\ UNCHANGED <<stop, supVars, connection, retry_delay, sessVars, fails,
                   sleptAfterStop>>
    /\ openCursors' = [openCursors EXCEPT ![w] = @ + 1]
    /\ \E d \in Draws :
          /\ draw' = [draw EXCEPT ![w] = d]
          /\ query' = [query EXCEPT ![w] = ChooseQuery(d, long_query_chance)]
    /\ Counted(w, "queries")
    /\ UNCHANGED constVars

\* mutant: the handle is dropped without the close attempt
LostHandlerNoClose(w, ok) ==
    /\ connection' = [connection EXCEPT ![w] = None]
    /\ Slept(w, LostSleep)
    /\ pc' = [pc EXCEPT ![w] = "sleepLost"]
    /\ UNCHANGED <<stop, supVars, retry_delay, sessVars, fails>>
    /\ UNCHANGED constVars

\* mutant: the connection is closed but the handle is kept
LostHandlerKeeps(w, ok) ==
    /\ CloseIfConnected(w, ok)
    /\ Slept(w, LostSleep)
    /\ pc' = [pc EXCEPT ![w] = "sleepLost"]
    /\ UNCHANGED <<stop, supVars, connection, retry_delay, owner, fails>>
    /\ UNCHANGED constVars

\* mutant: `connection` is a module-level variable shared by the threads
LostHandlerGlobal(w, ok) ==
    /\ CloseIfConnected(w, ok)
    /\ connection' = [v \in Workers |-> None]
    /\ Slept(w, LostSleep)
    /\ pc' = [pc EXCEPT ![w] = "sleepLost"]
    /\ UNCHANGED <<stop, supVars, retry_delay, owner, fails, constVars>>

\* `except mysql.connector.Error as err:` with err.errno in the listed codes:
\* close the connection if connected, connection = None; time.sleep(1) begins
LostHandler(w, ok) ==
    /\ CloseIfConnected(w, ok)
    /\ connection' = [connection EXCEPT ![w] = None]
    /\ Slept(w, LostSleep)
    /\ pc' = [pc EXCEPT ![w] = "sleepLost"]
    /\ UNCHANGED <<stop, supVars, retry_delay, owner, fails>>
    /\ UNCHANGED constVars

\* mutant: every query error forces a reconnect
OtherHandlerDrops(w) ==
    /\ connection' = [connection EXCEPT ![w] = None]
    /\ Slept(w, OtherSleep)
    /\ pc' = [pc EXCEPT ![w] = "sleepOther"]
    /\ UNCHANGED <<stop, supVars, retry_delay, sessVars, fails>>
    /\ UNCHANGED constVars

\* `except mysql.connector.Error as err:` with any other errno:
\* time.sleep(2) begins, the connection is kept
OtherHandler(w) ==
    /\ Slept(w, OtherSleep)
    /\ pc' = [pc EXCEPT ![w] = "sleepOther"]
    /\ UNCHANGED <<stop, supVars, connection, retry_delay, sessVars, fails>>
    /\ UNCHANGED constVars

\* the handler of a mysql.connector.Error raised in the query block
QueryErrorHandler(w, class, ok) ==
    IF class = "lost" THEN LostHandler(w, ok) ELSE OtherHandler(w)

\* connection.cursor() raises mysql.connector.Error; cursor stays None
CursorError(w) ==
    /\ Running
    /\ pc[w] = "cursor"
    /\ \E class \in {"lost", "other"}, ok \in BOOLEAN :
          QueryErrorHandler(w, class, ok)
    /\ UNCHANGED cursor
    /\ Counted(w, "queries")
    /\ UNCHANGED qVars

\* connection.cursor() raises another exception
CursorUnexpected(w) ==
    /\ Running
    /\ pc[w] = "cursor"
    /\ \E ok \in BOOLEAN : Critical(w, ok)
    /\ UNCHANGED cursor
    /\ Counted(w, "queries")
    /\ UNCHANGED qVars

\* mutant: the event is checked when the query returns and a worker told to
\* stop leaves at once, without finishing the iteration
ExecOkAbandons(w) ==
    /\ Running
    /\ pc[w] = "exec"
    /\ IsConnected(connection[w])
    /\ cursor' = [cursor EXCEPT ![w] = FALSE]
    /\ openCursors' = [openCursors EXCEPT ![w] = @ - 1]
    /\ query' = [query EXCEPT ![w] = "none"]
    /\ draw' = [draw EXCEPT ![w] = -1]
    /\ pc' = [pc EXCEPT ![w] = IF stop THEN "cleanup" ELSE "pace"]
    /\ UNCHANGED <<stop, supVars, connection, retry_delay, sessVars, fails,
                   sleptAfterStop, constVars, sinceStop>>

\* cursor.execute(query); cursor.fetchone(); cursor.close(); cursor = None;
\* the pacing sleep begins (a fraction of short_query_interval, not charged)
ExecOk(w) ==
    /\ Running
    /\ pc[w] = "exec"
    /\ IsConnected(connection[w])
    /\ cursor' = [cursor EXCEPT ![w] = FALSE]
    /\ pc' = [pc EXCEPT ![w] = "pace"]
    /\ UNCHANGED <<stop, supVars, connection, retry_delay, sessVars, fails,
                   sleptAfterStop>>
    /\ openCursors' = [openCursors EXCEPT ![w] = @ - 1]
    /\ query' = [query EXCEPT ![w] = "none"]
    /\ draw' = [draw EXCEPT ![w] = -1]
    /\ Completed(w)
    /\ UNCHANGED constVars

\* execute or fetchone raises mysql.connector.Error; the cursor stays open
\* until the finally clause, which runs after the handler's sleep
ExecError(w) ==
    /\ Running
    /\ pc[w] = "exec"
    /\ \E class \in {"lost", "other"}, ok \in BOOLEAN :
          QueryErrorHandler(w, class, ok)
    /\ UNCHANGED cursor
    /\ query' = [query EXCEPT ![w] = "none"]
    /\ draw' = [draw EXCEPT ![w] = -1]
    /\ Completed(w)
    /\ UNCHANGED openCursors

\* execute or fetchone raises another exception: the finally clause closes
\* the cursor, then the loop-level handler runs
ExecUnexpected(w) ==
    /\ Running
    /\ pc[w] = "exec"
    /\ cursor' = [cursor EXCEPT ![w] = FALSE]
    /\ \E ok \in BOOLEAN : Critical(w, ok)
    /\ openCursors' = [openCursors EXCEPT ![w] = IF cursor[w] THEN @ - 1 ELSE @]
    /\ query' = [query EXCEPT ![w] = "none"]
    /\ draw' = [draw EXCEPT ![w] = -1]
    /\ Completed(w)

\* the pacing sleep after a successful query returns
PaceWake(w) ==
    /\ Running
    /\ pc[w] = "pace"
    /\ pc' = [pc EXCEPT ![w] = "top"]
    /\ sleptAfterStop' = [sleptAfterStop EXCEPT ![w] = 0]
    /\ UNCHANGED <<stop, supVars, connection, retry_delay, cursor, sessVars,
                   fails>>
    /\ UNCHANGED <<constVars, qVars, sinceStop>>

\* mutant: the query block has no finally clause
ErrorSleepWakeNoFinally(w) ==
    /\ Running
    /\ pc[w] \in {"sleepLost", "sleepOther"}
    /\ pc' = [pc EXCEPT ![w] = "top"]
    /\ sleptAfterStop' = [sleptAfterStop EXCEPT ![w] = 0]
    /\ UNCHANGED <<stop, supVars, connection, retry_delay, cursor, sessVars,
                   fails, constVars, qVars, sinceStop>>

\* time.sleep(1) or time.sleep(2) of the query error handler returns; the
\* finally clause closes the cursor if it is not None
ErrorSleepWake(w) ==
    /\ Running
    /\ pc[w] \in {"sleepLost", "sleepOther"}
    /\ cursor' = [cursor EXCEPT ![w] = FALSE]
    /\ pc' = [pc EXCEPT ![w] = "top"]
    /\ sleptAfterStop' = [sleptAfterStop EXCEPT ![w] = 0]
    /\ UNCHANGED <<stop, supVars, connection, retry_delay, sessVars, fails>>
    /\ openCursors' = [openCursors EXCEPT ![w] = IF cursor[w] THEN @ - 1 ELSE @]
    /\ UNCHANGED <<constVars, query, draw, sinceStop>>

\* time.sleep(5) of the loop-level handler returns
CriticalWake(w) ==
    /\ Running
    /\ pc[w] = "sleepCrit"
    /\ pc' = [pc EXCEPT ![w] = "top"]
    /\ sleptAfterStop' = [sleptAfterStop EXCEPT ![w] = 0]
    /\ UNCHANGED <<stop, supVars, connection, retry_delay, cursor, sessVars,
                   fails>>
    /\ UNCHANGED <<constVars, qVars, sinceStop>>

\* mutant: db_worker returns without the cleanup block
CleanupNoClose(w) ==
    /\ Running
    /\ pc[w] = "cleanup"
    /\ connection' = [connection EXCEPT ![w] = None]
    /\ retry_delay' = [retry_delay EXCEPT ![w] = InitialRetryDelay]
    /\ fails' = [fails EXCEPT ![w] = 0]
    /\ pc' = [pc EXCEPT ![w] = "stopped"]
    /\ UNCHANGED <<stop, supVars, cursor, sessVars, sleptAfterStop, constVars,
                   qVars, sinceStop>>

\* cleanup on exit: close the connection if connected; "Worker stopped";
\* db_worker returns and its locals are gone
Cleanup(w) ==
    /\ Running
    /\ pc[w] = "cleanup"
    /\ \E ok \in BOOLEAN : CloseIfConnected(w, ok)
    /\ connection' = [connection EXCEPT ![w] = None]
    /\ retry_delay' = [retry_delay EXCEPT ![w] = InitialRetryDelay]
    /\ fails' = [fails EXCEPT ![w] = 0]
    /\ pc' = [pc EXCEPT ![w] = "stopped"]
    /\ UNCHANGED <<stop, supVars, cursor, owner, sleptAfterStop>>
    /\ UNCHANGED <<constVars, qVars, sinceStop>>

Worker(w) ==
    \/ LoopTop(w)
    \/ ConnectOk(w)
    \/ ConnectFail(w)
    \/ BackoffWake(w)
    \/ ConnectUnexpected(w)
    \/ OpenCursor(w)
    \/ CursorError(w)
    \/ CursorUnexpected(w)
    \/ ExecOk(w)
    \/ ExecError(w)
    \/ ExecUnexpected(w)
    \/ PaceWake(w)
    \/ ErrorSleepWake(w)
    \/ CriticalWake(w)
    \/ Cleanup(w)

\* ----------------------------------------------------------- environment

\* the endpoint drops a live session (failover, reset, timeout)
SessionDies(s) ==
    /\ Running
    /\ status[s] = "live"
    /\ status' = [status EXCEPT ![s] = "dead"]
    /\ UNCHANGED <<stop, supVars, pc, connection, retry_delay, cursor, owner,
                   closeCalled, fails, sleptAfterStop>>
    /\ UNCHANGED <<constVars, qVars, sinceStop>>

Next ==
    \/ Supervisor
    \/ signal_handler
    \/ \E w \in Workers : Worker(w)
    \/ \E s \in Sessions : SessionDies(s)

Spec == Init /\ [][Next]_vars

\* every connect, query and sleep of a worker returns and the thread is
\* scheduled: a worker that can take a step eventually takes one
WorkerFairSpec == Spec /\ \A w \in Workers : WF_vars(Worker(w))

\* the main thread is scheduled: its polling sleep and every join, which has
\* a timeout, return
SupervisorFairSpec == Spec /\ WF_vars(Supervisor)

\* the same program with the observer of sinceStop switched on
CountingInit ==
    /\ stop = FALSE
    /\ supPc = "boot"
    /\ supIdx = 1
    /\ bootstrap = "pending"
    /\ exitCode = -1
    /\ joinWait = 0
    /\ pc = [w \in Workers |-> "unstarted"]
    /\ connection = [w \in Workers |-> None]
    /\ retry_delay = [w \in Workers |-> InitialRetryDelay]
    /\ cursor = [w \in Workers |-> FALSE]
    /\ status = [s \in Sessions |-> "unopened"]
    /\ owner = [s \in Sessions |-> None]
    /\ closeCalled = {}
    /\ fails = [w \in Workers |-> 0]
    /\ sleptAfterStop = [w \in Workers |-> 0]
    /\ \E cfg \in Configs : workers = cfg[1] /\ long_query_chance = cfg[2]
    /\ query = [w \in Workers |-> "none"]
    /\ draw = [w \in Workers |-> -1]
    /\ openCursors = [w \in Workers |-> 0]
    /\ counting = TRUE
    /\ sinceStop = [w \in Workers |-> NoneSince]

CountingSpec == CountingInit /\ [][Next]_vars

\* ----------------------------------------------------------------- claims

\* worker w takes a step of its own (a start by the supervisor and the end of
\* the process are steps of the supervisor)
WorkerStep(w) ==
    /\ pc[w] # "unstarted"
    /\ pc'[w] # pc[w]
    /\ pc'[w] # "killed"

\* sessions opened by worker w that are live
LiveSessions(w) == {s \in Sessions : owner[s] = w /\ status[s] = "live"}

\* min(2^(k-1), 30)
BackoffDelay(k) == Min(2 ^ (k - 1), MaxRetryDelay)

\* C1: while a worker sleeps after its k-th consecutive connect failure
\* (k counted from its last successful connect or from its start; from
\* MaxFails on the count reads "MaxFails or more"), the delay it sleeps is
\* min(2^(k-1), 30); in particular the first failure after a successful
\* connect is followed by a delay of 1.
C1_BackoffDelay ==
    \A w \in Workers :
        pc[w] = "backoff" =>
            /\ fails[w] >= 1
            /\ retry_delay[w] = BackoffDelay(fails[w])

\* one worker sleeps the capped delay while another, which has held a
\* session before, sleeps 1 second after its first new failure
C1_Witness ==
    \E w1, w2 \in Workers :
        /\ pc[w1] = "backoff" /\ retry_delay[w1] = MaxRetryDelay
        /\ pc[w2] = "backoff" /\ fails[w2] = 1 /\ retry_delay[w2] = 1
        /\ \E s \in Sessions : owner[s] = w2

\* C2: in every reachable state each worker has at most one live session
\* (opened by it and neither closed nor dead).
C2_OneLiveSession ==
    \A w \in Workers : Cardinality(LiveSessions(w)) <= 1

\* a worker holds a live second session after the close of its first one
\* raised
C2_Witness ==
    \E w \in Workers : \E s1, s2 \in Sessions :
        /\ owner[s1] = w /\ owner[s2] = w
        /\ s1 \in closeCalled /\ status[s1] = "dead"
        /\ status[s2] = "live" /\ connection[w] = s2

\* the handler of a connection-lost class query error runs in this step
LostStep(w) == pc[w] \in {"cursor", "exec"} /\ pc'[w] = "sleepLost"

\* after a connection-lost class error the session the query ran on is
\* dropped and is not live
C3_Drops(w) ==
    LostStep(w) =>
        /\ connection[w] # None
        /\ connection'[w] = None
        /\ status'[connection[w]] # "live"

\* a worker without a session obtains one only from a successful connect,
\* which returns a session that was not open before, and a query is only
\* dispatched on a held session
C3_LaterSession(w) ==
    /\ (connection[w] = None /\ connection'[w] # None) =>
            /\ pc[w] = "connect"
            /\ status[connection'[w]] = "unopened"
            /\ status'[connection'[w]] = "live"
    /\ pc'[w] \in {"cursor", "exec"} => connection'[w] # None

\* C3 as stated: on a connection-lost class error of query N the worker
\* closes the session query N ran on and drops it, and query N+1 is only
\* dispatched on a session obtained by a later successful connect.
C3_Original ==
    [][\A w \in Workers :
          /\ C3_Drops(w)
          /\ C3_LaterSession(w)
          /\ LostStep(w) => connection[w] \in closeCalled']_vars

\* C3 amended: on a connection-lost class error of query N the worker calls
\* close on the session query N ran on if that session still reports
\* connected (a session that is already dead is dropped without a close
\* call); in both cases it drops the session, the session is not live
\* afterwards, and query N+1 is only dispatched on a session obtained by a
\* later successful connect.
C3_ClosesIfConnected ==
    [][\A w \in Workers :
          /\ C3_Drops(w)
          /\ C3_LaterSession(w)
          /\ LostStep(w) =>
                IF status[connection[w]] = "live"
                THEN connection[w] \in closeCalled'
                ELSE closeCalled' = closeCalled]_vars

\* a worker sleeps after a connection-lost class error, holding no session,
\* and the session it opened is dead without close having been called on it
C3_Witness ==
    \E w \in Workers : \E s \in Sessions :
        /\ pc[w] = "sleepLost"
        /\ connection[w] = None
        /\ owner[s] = w
        /\ status[s] = "dead"
        /\ s \notin closeCalled

\* the handler of an other-class query error runs in this step
OtherStep(w) == pc[w] \in {"cursor", "exec"} /\ pc'[w] = "sleepOther"

\* C4: on a query error outside the connection-lost class the worker keeps
\* its session and closes nothing; after the 2 second sleep it is back at
\* the loop top with the same session, and at the loop top a worker whose
\* session is alive (and that is not told to stop) makes no connect attempt
\* and dispatches its next query on that same session.
C4_KeepsSession ==
    [][\A w \in Workers :
          /\ OtherStep(w) =>
                /\ connection[w] # None
                /\ connection'[w] = connection[w]
                /\ status' = status
                /\ closeCalled' = closeCalled
          /\ (pc[w] = "sleepOther" /\ WorkerStep(w)) =>
                /\ pc'[w] = "top"
                /\ connection'[w] = connection[w]
          /\ (pc[w] = "top" /\ WorkerStep(w) /\ ~stop
                /\ IsConnected(connection[w])) =>
                /\ pc'[w] = "cursor"
                /\ connection'[w] = connection[w]
                /\ status' = status
          /\ (pc[w] = "cursor" /\ pc'[w] = "exec") =>
                connection'[w] = connection[w]]_vars

\* a worker sleeps after an other-class error and still holds its live
\* session
C4_Witness ==
    \E w \in Workers :
        /\ pc[w] = "sleepOther"
        /\ IsConnected(connection[w])
        /\ ~stop

\* C5: once the stop flag is set, every started worker eventually reaches
\* STOPPED, whatever the endpoint does, as long as the worker keeps being
\* scheduled and its calls return (WorkerFairSpec); a worker is no longer
\* scheduled once the process has exited.
C5_WorkersStop ==
    \A w \in Workers :
        (stop /\ pc[w] # "unstarted") ~> (pc[w] = "stopped" \/ supPc = "exited")

\* a worker has stopped, after a close on shutdown, while the process still
\* runs and another worker is still backing off from a failing endpoint
C5_Witness ==
    /\ stop
    /\ supPc # "exited"
    /\ \E w, v \in Workers :
          /\ pc[w] = "stopped"
          /\ \E s \in Sessions : owner[s] = w /\ status[s] = "closed"
          /\ pc[v] = "backoff"

\* the bound of C6: longest query duration plus the largest fixed
\* post-error sleep
C6_Bound == LongQueryDuration + CriticalSleep

\* a sleep of worker w returns in this step
WakeStep(w) ==
    /\ pc[w] \in {"backoff", "pace", "sleepLost", "sleepOther", "sleepCrit"}
    /\ WorkerStep(w)

\* C6 as stated: every worker has terminated long_query_duration + 5 seconds
\* after the stop flag was set; so no worker is still running, returning
\* from a sleep, later than that (a sleep begun after the flag was set
\* returns at least its duration after the flag).
C6_Original ==
    [][\A w \in Workers : WakeStep(w) => sleptAfterStop[w] <= C6_Bound]_vars

\* C7: a worker leaves its loop and stops only when the stop flag is set;
\* no step of a worker (any error handler included) ends the worker in
\* another way, changes the supervisor's position or the exit code, sets the
\* flag, or changes the local state of another worker.
C7_OnlyStopFlagStops ==
    /\ [](\A w \in Workers : pc[w] \in {"cleanup", "stopped"} => stop)
    /\ [][\A w \in Workers :
            WorkerStep(w) =>
                /\ pc'[w] = "cleanup" => (pc[w] = "top" /\ stop)
                /\ pc'[w] = "stopped" => pc[w] = "cleanup"
                /\ supPc' = supPc
                /\ exitCode' = exitCode
                /\ stop' = stop
                /\ \A v \in Workers \ {w} :
                      /\ pc'[v] = pc[v]
                      /\ connection'[v] = connection[v]
                      /\ retry_delay'[v] = retry_delay[v]
                      /\ cursor'[v] = cursor[v]]_vars

\* with the flag not set, one worker sleeps after an unexpected error and
\* another after a connection-lost error; both are alive
C7_Witness ==
    /\ ~stop
    /\ supPc = "main"
    /\ \E w, v \in Workers : pc[w] = "sleepCrit" /\ pc[v] = "sleepLost"

\* C8: once the stop flag is set it stays set in every later state.
C8_StopMonotone == [][stop => stop']_vars

\* the flag is still set after the workers have stopped and the process has
\* exited
C8_Witness ==
    /\ stop
    /\ supPc = "exited"
    /\ \A w \in Workers : pc[w] = "stopped"

\* C9: the supervisor joins only after the stop flag is set, a join waits at
\* most long_query_duration + 5 seconds, and once the flag is set the
\* supervisor eventually exits with code 0 (SupervisorFairSpec: no worker
\* needs to take a step).
C9_SupervisorExits ==
    /\ [](supPc = "join" => stop)
    /\ []((supPc = "exited" /\ exitCode = 0) => stop)
    /\ [](joinWait <= LongQueryDuration + 5)
    /\ (stop ~> (supPc = "exited" /\ exitCode = 0))

\* the process has exited with code 0 after a join timed out, and a worker
\* was still alive
C9_Witness ==
    /\ supPc = "exited"
    /\ exitCode = 0
    /\ joinWait = JoinTimeout
    /\ \E w \in Workers : pc[w] = "killed"

\* C10: if the bootstrap step fails the process has exited with a non-zero
\* code, no worker is started and no session is opened; a worker is started
\* only after the bootstrap has passed (succeeded or not requested).
C10_BootstrapFatal ==
    /\ bootstrap = "failed" =>
          /\ supPc = "exited"
          /\ exitCode > 0
          /\ \A w \in Workers : pc[w] = "unstarted"
          /\ \A s \in Sessions : status[s] = "unopened"
    /\ \A w \in Workers : pc[w] # "unstarted" => bootstrap = "passed"

\* the bootstrap has failed and the process has exited with code 1
C10_Witness ==
    /\ bootstrap = "failed"
    /\ exitCode = 1
    /\ supPc = "exited"

\* C11: a worker reads the stop flag only at the top of its loop: it leaves
\* the loop only from the loop top, a step of a worker with a query in
\* flight is the return or the error of that query (never the exit from the
\* loop), and a worker whose query was in flight when the flag was set has
\* seen that query return or raise before it leaves the loop and stops.
C11_QueryCompletes ==
    /\ [](\A w \in Workers :
            (pc[w] \in {"cleanup", "stopped"} /\ sinceStop[w].inFlight) =>
                sinceStop[w].completed)
    /\ [][\A w \in Workers :
            WorkerStep(w) =>
                /\ pc'[w] = "cleanup" => pc[w] = "top"
                /\ pc[w] = "exec" =>
                      pc'[w] \in {"pace", "sleepLost", "sleepOther",
                                  "sleepCrit"}]_vars

\* a worker has stopped whose query was in flight when the flag was set and
\* returned or raised afterwards
C11_Witness ==
    \E w \in Workers :
        /\ pc[w] = "stopped"
        /\ sinceStop[w].inFlight
        /\ sinceStop[w].completed

\* session s was opened by a worker that has since opened another session
\* or has stopped
Superseded(s) ==
    /\ status[s] # "unopened"
    /\ \/ pc[owner[s]] = "stopped"
       \/ \E s2 \in Sessions : s2 > s /\ owner[s2] = owner[s]

\* worker w gives up the handle it holds (drops or replaces it) in this step
DropStep(w) ==
    /\ WorkerStep(w)
    /\ connection[w] # None
    /\ connection'[w] # connection[w]

\* C12 as stated: every session a worker opens has close invoked on it
\* before that worker opens another session and before that worker stops.
C12_Original ==
    \A s \in Sessions : Superseded(s) => s \in closeCalled

\* C12 amended: before a worker opens another session and before it stops,
\* every session it opened is either closed by it (close is invoked when the
\* worker gives up a handle that still reports connected) or was found not
\* connected and is given up without a close call; in particular a session
\* kept after an other-class query error and later found not alive at the
\* loop top is replaced by the reconnect without close being invoked on it.
C12_ClosedOrNotAlive ==
    /\ [](\A s \in Sessions : Superseded(s) => status[s] # "live")
    /\ [][\A w \in Workers :
            /\ DropStep(w) =>
                  /\ status'[connection[w]] # "live"
                  /\ IF status[connection[w]] = "live"
                     THEN connection[w] \in closeCalled'
                     ELSE closeCalled' = closeCalled
            /\ (WorkerStep(w) /\ pc[w] = "connect" /\ connection[w] # None) =>
                  /\ status[connection[w]] # "live"
                  /\ closeCalled' = closeCalled]_vars

\* a worker is reconnecting while it still holds a session that it found
\* not alive at the loop top and on which close was never invoked
C12_Witness ==
    \E w \in Workers :
        /\ pc[w] = "connect"
        /\ connection[w] # None
        /\ status[connection[w]] = "dead"
        /\ connection[w] \notin closeCalled

\* C13: a worker in STOPPED has no live session, and the cleanup invokes
\* close on a session that is still connected when the worker leaves.
C13_StoppedHoldsNothing ==
    /\ [](\A w \in Workers :
            pc[w] = "stopped" => (LiveSessions(w) = {} /\ connection[w] = None))
    /\ [][\A w \in Workers :
            (pc[w] = "cleanup" /\ pc'[w] = "stopped"
                /\ IsConnected(connection[w])) =>
                /\ connection[w] \in closeCalled'
                /\ status'[connection[w]] # "live"]_vars

\* a worker has stopped, the process still joins, and the session the
\* worker opened was closed
C13_Witness ==
    \E w \in Workers : \E s \in Sessions :
        /\ pc[w] = "stopped"
        /\ supPc = "join"
        /\ owner[s] = w
        /\ s \in closeCalled
        /\ status[s] = "closed"
        /\ \A s2 \in Sessions : owner[s2] = w => s2 = s

\* the loop-level handler of an unexpected error runs in this step
CritStep(w) == pc[w] \in {"connect", "cursor", "exec"} /\ pc'[w] = "sleepCrit"

\* C14: the handler of an unexpected error invokes close on the worker's
\* session if it still reports connected and drops the handle; the worker
\* holds no session during the 5 second sleep and after it, and its next
\* step from the loop top is a connect attempt or the exit from the loop; a
\* session it holds later is a new one, so no query is dispatched on the
\* session held when the error occurred.
C14_UnexpectedDropsSession ==
    /\ [](\A w \in Workers : pc[w] = "sleepCrit" => connection[w] = None)
    /\ [][\A w \in Workers :
            /\ CritStep(w) =>
                  /\ connection'[w] = None
                  /\ connection[w] # None =>
                        /\ status'[connection[w]] # "live"
                        /\ IF status[connection[w]] = "live"
                           THEN connection[w] \in closeCalled'
                           ELSE closeCalled' = closeCalled
            /\ (pc[w] = "sleepCrit" /\ WorkerStep(w)) =>
                  /\ pc'[w] = "top"
                  /\ connection'[w] = None
            /\ (pc[w] = "top" /\ connection[w] = None /\ WorkerStep(w)) =>
                  /\ pc'[w] \in {"connect", "cleanup"}
                  /\ connection'[w] = None
            /\ (connection'[w] # None /\ connection'[w] # connection[w]) =>
                  /\ pc[w] = "connect"
                  /\ status[connection'[w]] = "unopened"
            /\ pc'[w] \in {"cursor", "exec"} => connection'[w] # None]_vars

\* a worker sleeps in the handler of an unexpected error: it holds no
\* session and a session it opened was closed
C14_Witness ==
    \E w \in Workers : \E s \in Sessions :
        /\ pc[w] = "sleepCrit"
        /\ connection[w] = None
        /\ owner[s] = w
        /\ status[s] = "closed"
        /\ s \in closeCalled
        /\ fails[w] = 0
        /\ ~stop

\* C15: a worker never has more than one open cursor, and it has none
\* outside a query attempt: none at the loop top, during a connect or a
\* back-off, after a successful query, after an unexpected error, and none
\* when it stops; a cursor is open only while the query executes and while
\* the handler of a classified query error sleeps, before its finally
\* clause has run.
C15_NoCursorLeak ==
    \A w \in Workers :
        /\ openCursors[w] <= 1
        /\ cursor[w] = (openCursors[w] = 1)
        /\ pc[w] = "top" => openCursors[w] = 0
        /\ pc[w] \notin {"exec", "sleepLost", "sleepOther"} => openCursors[w] = 0

\* one worker sleeps in the handler of a query error with its cursor still
\* open while another sleeps in the handler after failing to obtain a cursor
C15_Witness ==
    \E w, v \in Workers :
        /\ pc[w] = "sleepOther" /\ openCursors[w] = 1
        /\ pc[v] = "sleepLost" /\ openCursors[v] = 0

\* C16: a step of worker w leaves the session handle, retry delay, position,
\* cursor and query of every other worker unchanged, changes no session
\* opened by another worker, and writes neither the stop flag nor the
\* configuration; a session handle is held only by the worker that opened
\* it, never by two workers; and a running worker can always take a step,
\* whatever the other workers do.
C16_WorkersIndependent ==
    /\ [](\A w, v \in Workers :
            (w # v /\ connection[w] # None) => connection[w] # connection[v])
    /\ [](\A w \in Workers :
            connection[w] # None => owner[connection[w]] = w)
    /\ [](\A w \in Workers :
            (Running /\ pc[w] \notin {"unstarted", "stopped", "killed"}) =>
                ENABLED Worker(w))
    /\ [][\A w \in Workers :
            WorkerStep(w) =>
                /\ \A v \in Workers \ {w} :
                      /\ connection'[v] = connection[v]
                      /\ retry_delay'[v] = retry_delay[v]
                      /\ pc'[v] = pc[v]
                      /\ cursor'[v] = cursor[v]
                      /\ openCursors'[v] = openCursors[v]
                      /\ query'[v] = query[v]
                      /\ draw'[v] = draw[v]
                      /\ fails'[v] = fails[v]
                /\ \A s \in Sessions :
                      owner[s] \notin {None, w} =>
                          /\ status'[s] = status[s]
                          /\ owner'[s] = owner[s]
                          /\ (s \in closeCalled') = (s \in closeCalled)
                /\ stop' = stop
                /\ workers' = workers
                /\ long_query_chance' = long_query_chance]_vars

\* two workers hold two different live sessions; one executes a query while
\* the other paces after one
C16_Witness ==
    \E w, v \in Workers :
        /\ w # v
        /\ IsConnected(connection[w]) /\ pc[w] = "exec"
        /\ IsConnected(connection[v]) /\ pc[v] = "pace"
        /\ connection[w] # connection[v]

\* C17: while a worker executes a query, the query is the long one exactly
\* when the value drawn is less than long_query_chance and the short one
\* otherwise, for every draw in [0,1) and every chance in [0,1] (in steps
\* of 1/ChanceSteps); with a chance of 0 no query is long and with a chance
\* of 1 every query is long.
C17_LongIffBelowChance ==
    \A w \in Workers :
        /\ pc[w] = "exec" =>
              /\ draw[w] \in Draws
              /\ query[w] \in {"long", "short"}
              /\ (query[w] = "long") = (draw[w] < long_query_chance)
        /\ long_query_chance = 0 => query[w] # "long"
        /\ long_query_chance = ChanceSteps => query[w] # "short"

\* with a chance strictly between 0 and 1, one worker runs a long query and
\* another, whose draw equals the chance, a short one
C17_Witness ==
    \E w, v \in Workers :
        /\ pc[w] = "exec" /\ query[w] = "long"
        /\ pc[v] = "exec" /\ query[v] = "short"
        /\ draw[v] = long_query_chance

\* C18: a worker that holds a session handle has a retry delay of 1; the
\* retry delay is greater than 1 only while the worker holds no handle.
C18_DelayOneWhileHolding ==
    \A w \in Workers :
        /\ connection[w] # None => retry_delay[w] = InitialRetryDelay
        /\ retry_delay[w] > InitialRetryDelay => connection[w] = None

\* one worker holds a session, with a delay of 1, while another, without a
\* session, has backed off to the cap
C18_Witness ==
    \E w, v \in Workers :
        /\ connection[w] # None
        /\ retry_delay[w] = InitialRetryDelay
        /\ connection[v] = None
        /\ retry_delay[v] = MaxRetryDelay

\* C19: after the stop flag is set a worker makes at most one more connect
\* call and begins at most one more query attempt before it stops; and a
\* worker whose connect succeeds with the flag set goes on to the query
\* attempt (the cursor, then the query) without reading the flag: its next
\* step is not the exit from the loop.
C19_AtMostOneMore ==
    /\ [](\A w \in Workers :
            /\ sinceStop[w].connects <= 1
            /\ sinceStop[w].queries <= 1)
    /\ [][\A w \in Workers :
            /\ (stop /\ pc[w] = "connect" /\ WorkerStep(w)
                  /\ connection'[w] # None) =>
                  pc'[w] = "cursor"
            /\ (pc[w] = "cursor" /\ WorkerStep(w)) =>
                  /\ pc'[w] \in {"exec", "sleepLost", "sleepOther",
                                 "sleepCrit"}
                  /\ stop => sinceStop'[w].queries = 1]_vars

\* a worker has stopped after one connect call and one query attempt that
\* both began after the flag was set
C19_Witness ==
    \E w \in Workers :
        /\ pc[w] = "stopped"
        /\ sinceStop[w].connects = 1
        /\ sinceStop[w].queries = 1

\* C20: the handlers of an unexpected error, of a connection-lost query
\* error and of an other-class query error leave the worker's retry delay
\* as it is; while the worker runs, the delay changes only when the sleep
\* after a classified connect failure returns (to min(2 * delay, 30)) and
\* on a successful connect (to 1).  (The delay is a local of db_worker and
\* ends with it.)
C20_DelayFrame ==
    [][\A w \in Workers :
          (WorkerStep(w) /\ pc'[w] # "stopped") =>
              /\ pc'[w] \in {"sleepLost", "sleepOther", "sleepCrit"} =>
                    retry_delay'[w] = retry_delay[w]
              /\ pc[w] = "backoff" =>
                    retry_delay'[w] = Min(retry_delay[w] * 2, MaxRetryDelay)
              /\ (pc[w] = "connect" /\ pc'[w] = "cursor") =>
                    retry_delay'[w] = InitialRetryDelay
              /\ retry_delay'[w] # retry_delay[w] =>
                    \/ pc[w] = "backoff"
                    \/ pc[w] = "connect" /\ pc'[w] = "cursor"]_vars

\* a worker sleeps in the handler of an unexpected error raised by a connect
\* attempt, with the delay of 4 it had reached by backing off
C20_Witness ==
    \E w \in Workers :
        /\ pc[w] = "sleepCrit"
        /\ retry_delay[w] = 4
        /\ fails[w] = 2

====
